---- MODULE Spec2Model ----
(***************************************************************************)
(* Model of src/src/qconversion.c: conversion of goniometer angles to      *)
(* momentum transfer for a point, a linear and an area detector.           *)
(*                                                                         *)
(* Numbers.  Angles are counted in quarter turns (angle q stands for       *)
(* q*pi/2 rad), so that every rotation matrix has entries in {-1,0,1} and  *)
(* matrix arithmetic is exact integer arithmetic.  Input vectors have      *)
(* integer components.  The wavenumber 2*pi/lambda is the positive integer *)
(* f.  A real vector is a sequence of terms, the sum of which it is; a     *)
(* term [num, sq, mul] stands for  mul * num / sqrt(sq)  with num an       *)
(* integer vector: this is what normalize (sq := |num|^2) and vecmul       *)
(* (mul := mul*f) produce, and no rounding is modelled.  sq = 0 is the     *)
(* result 0/0 of normalizing the zero vector.                              *)
(***************************************************************************)
EXTENDS Integers, Sequences, FiniteSets, TLC

VARIABLES
    entry,              \* which entry point is called: "point", "linear", "area"
    sampleAngles, detectorAngles, Ns, Nd, Npoints,
    sampleAxis, detectorAxis,
    ri,                 \* ang2q_conversion: caller's primary beam vector (in, overwritten)
    rcch,               \* linear/area: caller's center channel vector
    cch1, cch2, dpixel1, dpixel2, roi, dir1, dir2,
    f,                  \* M_2PI/lambda
    qpos,               \* caller's output buffer, one entry per 3-double slot
    sampleRotation, detectorRotation,
    rpixel1, rpixel2, rcchp, r_i,
    pc, i, ret,
    owner, tpc, tpos, scratch,   \* parallel loop: schedule, thread position, thread-private copies
    nwrites, oob, ri0, wlog, rlog, \* history: writes per slot, writes outside qpos, ri on entry, access logs
    lastcall            \* history: the resolver called last and the status it returned

inputs == <<entry, sampleAngles, detectorAngles, Ns, Nd, Npoints, sampleAxis,
            detectorAxis, rcch, cch1, cch2, dpixel1, dpixel2, roi, dir1, dir2, f, ri0>>
setup  == <<sampleRotation, detectorRotation, rpixel1, rpixel2, rcchp, r_i, lastcall>>
out    == <<qpos, nwrites, oob>>
par    == <<owner, tpc, tpos, scratch, wlog, rlog>>
vars   == <<inputs, ri, setup, out, pc, i, ret, par>>

(***************************************************************************)
(* Bounds of the model.                                                    *)
(***************************************************************************)
MaxCircles == 2      \* circles per goniometer in the axis-string inputs
MaxPoints == 2       \* goniometer positions per call
MaxPix == 2          \* largest ROI bound
MaxPitch == 2        \* largest pixel pitch
MaxRotCircles == 2   \* circles per goniometer in the rotation inputs
NThreads == 2        \* worker threads of the parallel loop
MaxParPoints == 3    \* goniometer positions per call in the parallel loop

(***************************************************************************)
(* vecmat3.h: 3-vectors are triples, 3x3 matrices are 9-tuples, row-major  *)
(* (m[3*r+c] of the C code is m[3*r+c+1] here).                            *)
(***************************************************************************)
Zero3 == <<0, 0, 0>>

ident == <<1, 0, 0,  0, 1, 0,  0, 0, 1>>

\* matmul(m1,m2): m1 := m1 * m2
matmul(m1, m2) ==
    [k \in 1..9 |->
        LET r == (k - 1) \div 3
            c == (k - 1) % 3
        IN  m1[3*r + 1] * m2[c + 1] + m1[3*r + 2] * m2[c + 4] + m1[3*r + 3] * m2[c + 7]]

\* diffmat(m1,m2): m1 := m1 - m2
diffmat(m1, m2) == [k \in 1..9 |-> m1[k] - m2[k]]

det(m) ==
      m[1] * (m[5] * m[9] - m[6] * m[8])
    - m[2] * (m[4] * m[9] - m[6] * m[7])
    + m[3] * (m[4] * m[8] - m[5] * m[7])

\* inversemat(m,i): i := m^-1, the adjugate over the determinant
inversemat(m) ==
    LET d == det(m)
        adj == << m[5]*m[9] - m[6]*m[8],  m[3]*m[8] - m[2]*m[9],  m[2]*m[6] - m[3]*m[5],
                  m[6]*m[7] - m[4]*m[9],  m[1]*m[9] - m[3]*m[7],  m[3]*m[4] - m[1]*m[6],
                  m[4]*m[8] - m[5]*m[7],  m[2]*m[7] - m[1]*m[8],  m[1]*m[5] - m[2]*m[4] >>
    IN  [k \in 1..9 |-> IF d = 0 THEN 0 ELSE adj[k] \div d]

\* matvec on an integer vector
matvecInt(m, v) ==
    << m[1]*v[1] + m[2]*v[2] + m[3]*v[3],
       m[4]*v[1] + m[5]*v[2] + m[6]*v[3],
       m[7]*v[1] + m[8]*v[2] + m[9]*v[3] >>

dot(a, b) == a[1]*b[1] + a[2]*b[2] + a[3]*b[3]

\* an integer vector as a real vector
Real(v) == << [num |-> v, sq |-> 1, mul |-> 1] >>

\* normalize(v): v := v / |v|, for a vector v given as one term
normalize(v) ==
    LET t == v[1]
        w == [k \in 1..3 |-> t.mul * t.num[k]]
    IN  << [num |-> w, sq |-> IF t.sq = 0 THEN 0 ELSE dot(w, w), mul |-> 1] >>

\* vecmul(v,a): v := a * v
vecmul(v, a) == [k \in 1..Len(v) |-> [v[k] EXCEPT !.mul = @ * a]]

\* matvec(m,v,r): r := m * v  (linear in v, so it acts on every term)
matvec(m, v) == [k \in 1..Len(v) |-> [v[k] EXCEPT !.num = matvecInt(m, @)]]

\* diffvec(v1,v2): v1 := v1 - v2
diffvec(v1, v2) == v1 \o [k \in 1..Len(v2) |-> [v2[k] EXCEPT !.mul = -@]]

(***************************************************************************)
(* rot_matrix.h: the six rotation generators, at an angle of q quarter     *)
(* turns.                                                                  *)
(***************************************************************************)
Cos(q) == <<1, 0, -1, 0>>[(q % 4) + 1]
Sin(q) == <<0, 1, 0, -1>>[(q % 4) + 1]

rotation_xp(a) == << 1, 0, 0,   0, Cos(a), -Sin(a),   0, Sin(a), Cos(a) >>
rotation_xm(a) == << 1, 0, 0,   0, Cos(a), Sin(a),   0, -Sin(a), Cos(a) >>
rotation_yp(a) == << Cos(a), 0, Sin(a),   0, 1, 0,   -Sin(a), 0, Cos(a) >>
rotation_ym(a) == << Cos(a), 0, -Sin(a),   0, 1, 0,   Sin(a), 0, Cos(a) >>
rotation_zp(a) == << Cos(a), -Sin(a), 0,   Sin(a), Cos(a), 0,   0, 0, 1 >>
rotation_zm(a) == << Cos(a), Sin(a), 0,   -Sin(a), Cos(a), 0,   0, 0, 1 >>

\* a call through a function pointer fp_rot
CallRot(fp, a) ==
    CASE fp = "rotation_xp" -> rotation_xp(a)
      [] fp = "rotation_xm" -> rotation_xm(a)
      [] fp = "rotation_yp" -> rotation_yp(a)
      [] fp = "rotation_ym" -> rotation_ym(a)
      [] fp = "rotation_zp" -> rotation_zp(a)
      [] fp = "rotation_zm" -> rotation_zm(a)

(***************************************************************************)
(* Strings are sequences of one-character strings.                         *)
(***************************************************************************)
tolower(c) ==
    CASE c = "X" -> "x"
      [] c = "Y" -> "y"
      [] c = "Z" -> "z"
      [] c = "Q" -> "q"
      [] OTHER -> c

Unset == "unset"     \* an element of an automatic array that was never assigned

\* AxisPair with the letter compared as it is, without tolower
AxisPair_CaseSensitive(letter, sign) ==
    CASE letter \in {"x", "y", "z"} /\ sign = "+" ->
            [ret |-> 0, fp |-> IF letter = "x" THEN "rotation_xp"
                               ELSE IF letter = "y" THEN "rotation_yp" ELSE "rotation_zp"]
      [] letter \in {"x", "y", "z"} /\ sign = "-" ->
            [ret |-> 0, fp |-> IF letter = "x" THEN "rotation_xm"
                               ELSE IF letter = "y" THEN "rotation_ym" ELSE "rotation_zm"]
      [] letter \in {"x", "y", "z"} -> [ret |-> 1, fp |-> Unset]
      [] OTHER -> [ret |-> 2, fp |-> Unset]

\* one pass of the loop body of determine_axes_directions, for the pair at k:
\* the status (0: entry assigned, go on) and the generator
AxisPair(letter, sign) ==
    CASE tolower(letter) = "x" ->
            (CASE sign = "+" -> [ret |-> 0, fp |-> "rotation_xp"]
               [] sign = "-" -> [ret |-> 0, fp |-> "rotation_xm"]
               [] OTHER -> [ret |-> 1, fp |-> Unset])
      [] tolower(letter) = "y" ->
            (CASE sign = "+" -> [ret |-> 0, fp |-> "rotation_yp"]
               [] sign = "-" -> [ret |-> 0, fp |-> "rotation_ym"]
               [] OTHER -> [ret |-> 1, fp |-> Unset])
      [] tolower(letter) = "z" ->
            (CASE sign = "+" -> [ret |-> 0, fp |-> "rotation_zp"]
               [] sign = "-" -> [ret |-> 0, fp |-> "rotation_zm"]
               [] OTHER -> [ret |-> 1, fp |-> Unset])
      [] OTHER -> [ret |-> 2, fp |-> Unset]

RECURSIVE AxesLoop(_, _, _, _)
AxesLoop(fp_circles, stringAxis, n, k) ==
    IF k >= n THEN [ret |-> 0, fp |-> fp_circles]
    ELSE LET p == AxisPair(stringAxis[2*k + 1], stringAxis[2*k + 2])
         IN  IF p.ret # 0 THEN [ret |-> p.ret, fp |-> fp_circles]
             ELSE AxesLoop([fp_circles EXCEPT ![k + 1] = p.fp], stringAxis, n, k + 1)

\* determine_axes_directions(fp_circles, stringAxis, n): the status and the array
determine_axes_directions(fp_circles, stringAxis, n) ==
    AxesLoop(fp_circles, stringAxis, n, 0)

\* determine_detector_pixel with the sign looked at before the letter
determine_detector_pixel_SignFirst(dir, dpixel) ==
    LET k == CASE tolower(dir[1]) = "x" -> 1
               [] tolower(dir[1]) = "y" -> 2
               [] tolower(dir[1]) = "z" -> 3
               [] OTHER -> 0
    IN  IF dir[2] \notin {"+", "-"} THEN [ret |-> 1, rpixel |-> Zero3]
        ELSE IF k = 0 THEN [ret |-> 2, rpixel |-> Zero3]
        ELSE [ret |-> 0, rpixel |-> [Zero3 EXCEPT ![k] = IF dir[2] = "+" THEN dpixel ELSE -dpixel]]

\* determine_detector_pixel(rpixel, dir, dpixel): the status and rpixel
determine_detector_pixel(dir, dpixel) ==
    LET axis(k) ==
            CASE dir[2] = "+" -> [ret |-> 0, rpixel |-> [Zero3 EXCEPT ![k] = dpixel]]
              [] dir[2] = "-" -> [ret |-> 0, rpixel |-> [Zero3 EXCEPT ![k] = -dpixel]]
              [] OTHER -> [ret |-> 1, rpixel |-> Zero3]
    IN  CASE tolower(dir[1]) = "x" -> axis(1)
          [] tolower(dir[1]) = "y" -> axis(2)
          [] tolower(dir[1]) = "z" -> axis(3)
          [] OTHER -> [ret |-> 2, rpixel |-> Zero3]

(***************************************************************************)
(* The body of the loop over the goniometer positions.  roi[0..3] of the C *)
(* code is roi[1..4] here; the angle arrays, sampleRotation and            *)
(* detectorRotation are 1-based in the same way.                           *)
(***************************************************************************)
\* The one element of a singleton.  The({F(x) : x \in {e}}) is F(e) with e
\* evaluated once, which keeps the evaluation of nested matrix products linear.
The(S) == CHOOSE x \in S : TRUE

RECURSIVE RotLoop_LeftMultiply(_, _, _, _, _, _)
\* RotLoop with the new circle multiplied from the left: m := R_j * m
RotLoop_LeftMultiply(rot, angles, n, p, j, m) ==
    IF j >= n THEN m
    ELSE The({RotLoop_LeftMultiply(rot, angles, n, p, j + 1, mm) :
                mm \in {matmul(CallRot(rot[j + 1], angles[n*p + j + 1]), m)}})

RECURSIVE RotLoop(_, _, _, _, _, _)
\* for(j=0; j<n; ++j) { rot[j](angles[n*i+j], mtemp2); matmul(m, mtemp2); }
RotLoop(rot, angles, n, p, j, m) ==
    IF j >= n THEN m
    ELSE The({RotLoop(rot, angles, n, p, j + 1, mm) :
                mm \in {matmul(m, CallRot(rot[j + 1], angles[n*p + j + 1]))}})

\* ident(mtemp); sample loop; inversemat(mtemp, ms)
SampleMatrix(p) ==
    The({inversemat(mtemp) : mtemp \in {RotLoop(sampleRotation, sampleAngles, Ns, p, 0, ident)}})

\* ident(md); detector loop
DetectorMatrix(p) == RotLoop(detectorRotation, detectorAngles, Nd, p, 0, ident)

\* PointQ without the subtraction of the identity: Q = R_s^-1 * R_d * k
PointQ_NoDifference(ms, md, beam) == matvec(matmul(ms, md), beam)

\* ang2q_conversion: ident(mtemp); diffmat(md,mtemp); matmul(ms,md); matvec(ms, ri, &qpos[3*i])
PointQ(ms, md, beam) == matvec(matmul(ms, diffmat(md, ident)), beam)

\* the tail of the pixel loops: normalize(rd) ... matvec(ms, rtemp, &qpos[..])
PixelQ(ms, md, rd) ==
    matvec(ms, vecmul(diffvec(matvec(md, normalize(Real(rd))), r_i), f))

\* rd[k] = j*rpixel[k] - rcchp[k];  sumvec(rd,rcch)
LinearRd(j) == [k \in 1..3 |-> j * rpixel1[k] - rcchp[k] + rcch[k]]

\* rd[k] = j1*rpixel1[k] + j2*rpixel2[k] - rcchp[k];  sumvec(rd,rcch)
AreaRd(j1, j2) == [k \in 1..3 |-> j1 * rpixel1[k] + j2 * rpixel2[k] - rcchp[k] + rcch[k]]

Nch == roi[2] - roi[1]
idxh1 == (roi[2] - roi[1]) * (roi[4] - roi[3])
idxh2 == roi[2] - roi[1]

\* AreaSlot with the stride of the second detector axis taken from that axis
AreaSlot_SwappedStride(p, j1, j2) == p * idxh1 + (roi[4] - roi[3]) * (j2 - roi[3]) + (j1 - roi[1])

\* the slot (index of a 3-double group of qpos) a pixel is written to
PointSlot(p) == p
LinearSlot(p, j) == p * Nch + j - roi[1]
AreaSlot(p, j1, j2) == p * idxh1 + idxh2 * (j2 - roi[3]) + (j1 - roi[1])

RECURSIVE Range_Inclusive(_, _)
\* Range with the upper bound included: for (j=lo; j<=hi; ++j)
Range_Inclusive(lo, hi) == IF lo > hi THEN <<>> ELSE <<lo>> \o Range_Inclusive(lo + 1, hi)

\* The pixels of one position in the order the loops visit them.
RECURSIVE Range(_, _)
Range(lo, hi) == IF lo >= hi THEN <<>> ELSE <<lo>> \o Range(lo + 1, hi)

RECURSIVE AreaPixels(_, _)
AreaPixels(j1, j2) ==
    IF j1 >= roi[2] THEN <<>>
    ELSE IF j2 >= roi[4] THEN AreaPixels(j1 + 1, roi[3])
    ELSE << <<j1, j2>> >> \o AreaPixels(j1, j2 + 1)

\* the writes to qpos of position p, in order, as [slot, val] records
PositionWrites(p, ms, md, beam) ==
    CASE entry = "point" ->
            << [slot |-> PointSlot(p), val |-> PointQ(ms, md, beam)] >>
      [] entry = "linear" ->
            LET px == Range(roi[1], roi[2])
            IN  [k \in 1..Len(px) |->
                    [slot |-> LinearSlot(p, px[k]), val |-> PixelQ(ms, md, LinearRd(px[k]))]]
      [] entry = "area" ->
            LET px == AreaPixels(roi[1], roi[3])
            IN  [k \in 1..Len(px) |->
                    [slot |-> AreaSlot(p, px[k][1], px[k][2]),
                     val |-> PixelQ(ms, md, AreaRd(px[k][1], px[k][2]))]]

\* the caller's buffer: one slot per (position, pixel), as the interface comments say
Pos(n) == IF n > 0 THEN n ELSE 0
QSize ==
    CASE entry = "point" -> Npoints
      [] entry = "linear" -> Npoints * Pos(roi[2] - roi[1])
      [] entry = "area" -> Npoints * Pos(roi[2] - roi[1]) * Pos(roi[4] - roi[3])
Slots == 0..(QSize - 1)

Garbage == << [num |-> Zero3, sq |-> -1, mul |-> 0] >>   \* what the caller left in qpos

RECURSIVE Store(_, _, _)
\* qpos, nwrites and oob after the writes ws[k..]
Store(o, ws, k) ==
    IF k > Len(ws) THEN o
    ELSE LET w == ws[k]
         IN  IF w.slot \in DOMAIN o.qpos
             THEN Store([o EXCEPT !.qpos[w.slot] = w.val, !.nwrites[w.slot] = @ + 1], ws, k + 1)
             ELSE Store([o EXCEPT !.oob = @ \cup {w.slot}], ws, k + 1)

(***************************************************************************)
(* The calls the model explores.  A call is a record of the arguments.     *)
(***************************************************************************)
Entries == {"point", "linear", "area"}
Letters == {"x", "y", "z", "Y", "q"}
Signs == {"+", "-", "*"}
ValidPairs == {<<l, s>> : l \in {"x", "y", "z"}, s \in {"+", "-"}}
Turns == 0..3

RECURSIVE Strings(_, _)
\* the strings of n pairs, each pair from the set P
Strings(P, n) == IF n = 0 THEN {<<>>} ELSE {p \o t : p \in P, t \in Strings(P, n - 1)}

AxisStrings(n) == Strings(Letters \X Signs, n)
DirStrings == Letters \X Signs
Zeros(n) == [k \in 1..n |-> 0]

DefaultCall ==
    [entry |-> "point", Npoints |-> 1,
     Ns |-> 1, sampleAxis |-> <<"x", "+">>, sampleAngles |-> <<0>>,
     Nd |-> 1, detectorAxis |-> <<"z", "-">>, detectorAngles |-> <<1>>,
     beam |-> <<0, 0, 1>>, f |-> 5,
     cch1 |-> 1, cch2 |-> 0, dpixel1 |-> 1, dpixel2 |-> 2,
     roi |-> <<0, 2, 0, 1>>, dir1 |-> <<"x", "+">>, dir2 |-> <<"y", "-">>]

RECURSIVE Circles(_)
\* the goniometers of n circles at one position: [axis, angles], every valid
\* axis and every multiple of a quarter turn
Circles(n) ==
    IF n = 0 THEN {[axis |-> <<>>, angles |-> <<>>]}
    ELSE {[axis |-> p \o c.axis, angles |-> <<a>> \o c.angles] :
            p \in ValidPairs, a \in Turns, c \in Circles(n - 1)}

FewCircles ==
    {[axis |-> <<>>, angles |-> <<>>],
     [axis |-> <<"y", "-">>, angles |-> <<1>>],
     [axis |-> <<"x", "+", "z", "-">>, angles |-> <<2, 3>>]}

(***************************************************************************)
(* The state on entry to the call c.                                       *)
(***************************************************************************)
Enter(c) ==
    /\ entry = c.entry
    /\ sampleAngles = c.sampleAngles /\ detectorAngles = c.detectorAngles
    /\ Ns = c.Ns /\ Nd = c.Nd /\ Npoints = c.Npoints
    /\ sampleAxis = c.sampleAxis /\ detectorAxis = c.detectorAxis
    /\ ri = Real(c.beam) /\ ri0 = Real(c.beam) /\ rcch = c.beam
    /\ cch1 = c.cch1 /\ cch2 = c.cch2 /\ dpixel1 = c.dpixel1 /\ dpixel2 = c.dpixel2
    /\ roi = c.roi /\ dir1 = c.dir1 /\ dir2 = c.dir2 /\ f = c.f
    /\ qpos = [s \in Slots |-> Garbage]
    /\ nwrites = [s \in Slots |-> 0]
    /\ oob = {}
    /\ sampleRotation = [k \in 1..c.Ns |-> Unset]
    /\ detectorRotation = [k \in 1..c.Nd |-> Unset]
    /\ rpixel1 = Unset /\ rpixel2 = Unset /\ rcchp = Unset /\ r_i = Unset
    /\ pc = "sample_axes" /\ i = 0 /\ ret = Unset
    /\ lastcall = [name |-> "none", status |-> 0]

\* every sample axis string, valid or not
InitSampleAxis ==
    \E e \in Entries, n \in 0..MaxCircles : \E s \in AxisStrings(n) :
        Enter([DefaultCall EXCEPT !.entry = e, !.Ns = n, !.sampleAxis = s,
                                  !.sampleAngles = Zeros(n)])

\* every detector axis string, valid or not
InitDetectorAxis ==
    \E e \in Entries, n \in 0..MaxCircles : \E s \in AxisStrings(n) :
        Enter([DefaultCall EXCEPT !.entry = e, !.Nd = n, !.detectorAxis = s,
                                  !.detectorAngles = Zeros(n)])

\* every combination of a failing and a passing resolution
InitFailure ==
    \E e \in Entries,
       s \in {<<"x", "+">>, <<"q", "+">>, <<"y", "*">>},
       d \in {<<"z", "-">>, <<"Q", "-">>, <<"x", "/">>},
       d1 \in {<<"z", "+">>, <<"q", "+">>, <<"x", "*">>},
       d2 \in {<<"y", "-">>, <<"q", "*">>, <<"Z", "?">>} :
        Enter([DefaultCall EXCEPT !.entry = e, !.sampleAxis = s, !.detectorAxis = d,
                                  !.dir1 = d1, !.dir2 = d2])

\* every detector direction and pixel pitch
InitPixel ==
    \E e \in {"linear", "area"}, d1 \in DirStrings, d2 \in DirStrings,
       p1 \in (-1)..MaxPitch, p2 \in {-1, MaxPitch} :
        Enter([DefaultCall EXCEPT !.entry = e, !.dir1 = d1, !.dir2 = d2,
                                  !.dpixel1 = p1, !.dpixel2 = p2, !.beam = <<1, 1, 2>>])

\* every region of interest
InitRoi ==
    \E e \in {"linear", "area"}, n \in 0..MaxPoints, r \in [1..4 -> 0..MaxPix] :
        Enter([DefaultCall EXCEPT !.entry = e, !.Npoints = n, !.roi = r, !.beam = <<1, 2, 3>>,
                                  !.sampleAngles = Zeros(n),
                                  !.detectorAngles = [k \in 1..n |-> k]])

\* every sample goniometer, with a few detector goniometers
InitSampleRot ==
    \E cd \in FewCircles, n \in 0..MaxRotCircles : \E cs \in Circles(n) :
        Enter([DefaultCall EXCEPT !.beam = <<1, 2, 0>>,
                  !.Ns = Len(cs.angles), !.sampleAxis = cs.axis, !.sampleAngles = cs.angles,
                  !.Nd = Len(cd.angles), !.detectorAxis = cd.axis, !.detectorAngles = cd.angles])

\* every detector goniometer, with a few sample goniometers
InitDetectorRot ==
    \E cs \in FewCircles, n \in 0..MaxRotCircles : \E cd \in Circles(n) :
        Enter([DefaultCall EXCEPT !.beam = <<1, 2, 0>>,
                  !.Ns = Len(cs.angles), !.sampleAxis = cs.axis, !.sampleAngles = cs.angles,
                  !.Nd = Len(cd.angles), !.detectorAxis = cd.axis, !.detectorAngles = cd.angles])

\* a few goniometers for the detectors with pixels, two positions
InitPixelRot ==
    \E e \in Entries, cs \in FewCircles, cd \in FewCircles :
        Enter([DefaultCall EXCEPT !.entry = e, !.beam = <<1, 0, 2>>, !.Npoints = 2,
                  !.Ns = Len(cs.angles), !.sampleAxis = cs.axis,
                  !.sampleAngles = cs.angles \o Zeros(Len(cs.angles)),
                  !.Nd = Len(cd.angles), !.detectorAxis = cd.axis,
                  !.detectorAngles = Zeros(Len(cd.angles)) \o cd.angles])

\* beams and wavenumbers, in calls that succeed and calls that fail
InitBeam ==
    \E e \in Entries, k \in {1, 3, 5},
       b \in {<<0, 0, 1>>, <<0, 0, 5>>, <<3, 4, 0>>, <<0, 0, 0>>, <<1, 2, 2>>, <<0, -3, 0>>},
       d \in {<<"z", "-">>, <<"z", "z">>} :
        Enter([DefaultCall EXCEPT !.entry = e, !.beam = b, !.f = k, !.detectorAxis = d])

Sequential ==
    /\ owner = <<>> /\ tpc = <<>> /\ tpos = <<>> /\ scratch = <<>>
    /\ wlog = {} /\ rlog = {}

Init ==
    /\ \/ InitSampleAxis \/ InitDetectorAxis \/ InitFailure \/ InitPixel \/ InitRoi
       \/ InitSampleRot \/ InitDetectorRot \/ InitPixelRot \/ InitBeam
    /\ Sequential

(***************************************************************************)
(* The steps of a call.  The three entry points share the two axis         *)
(* resolutions and the structure of the loop.                              *)
(***************************************************************************)
\* if(determine_axes_directions(sampleRotation,sampleAxis,Ns) != 0) return 1;
ResolveSampleAxes ==
    /\ pc = "sample_axes"
    /\ LET r == determine_axes_directions(sampleRotation, sampleAxis, Ns)
       IN  /\ sampleRotation' = r.fp
           /\ lastcall' = [name |-> "sample", status |-> r.ret]
           /\ IF r.ret # 0
              THEN pc' = "done" /\ ret' = 1
              ELSE pc' = "detector_axes" /\ ret' = ret
    /\ UNCHANGED <<inputs, ri, detectorRotation, rpixel1, rpixel2, rcchp, r_i, out, i, par>>

\* ResolveDetectorAxes returning a status of its own, 2
ResolveDetectorAxes_OwnCode ==
    /\ pc = "detector_axes"
    /\ LET r == determine_axes_directions(detectorRotation, detectorAxis, Nd)
       IN  /\ detectorRotation' = r.fp
           /\ lastcall' = [name |-> "detector", status |-> r.ret]
           /\ IF r.ret # 0
              THEN pc' = "done" /\ ret' = 2
              ELSE pc' = (IF entry = "point" THEN "prepare" ELSE "dir1") /\ ret' = ret
    /\ UNCHANGED <<inputs, ri, sampleRotation, rpixel1, rpixel2, rcchp, r_i, out, i, par>>

\* if(determine_axes_directions(detectorRotation,detectorAxis,Nd) != 0) return 1;
ResolveDetectorAxes ==
    /\ pc = "detector_axes"
    /\ LET r == determine_axes_directions(detectorRotation, detectorAxis, Nd)
       IN  /\ detectorRotation' = r.fp
           /\ lastcall' = [name |-> "detector", status |-> r.ret]
           /\ IF r.ret # 0
              THEN pc' = "done" /\ ret' = 1
              ELSE pc' = (IF entry = "point" THEN "prepare" ELSE "dir1") /\ ret' = ret
    /\ UNCHANGED <<inputs, ri, sampleRotation, rpixel1, rpixel2, rcchp, r_i, out, i, par>>

\* if(determine_detector_pixel(rpixel, dir, dpixel) != 0) return 1;   (rpixel1, dir1, dpixel1)
ResolveDirection1 ==
    /\ pc = "dir1"
    /\ LET r == determine_detector_pixel(dir1, dpixel1)
       IN  /\ rpixel1' = r.rpixel
           /\ lastcall' = [name |-> "dir1", status |-> r.ret]
           /\ IF r.ret # 0
              THEN pc' = "done" /\ ret' = 1
              ELSE pc' = (IF entry = "area" THEN "dir2" ELSE "prepare") /\ ret' = ret
    /\ UNCHANGED <<inputs, ri, sampleRotation, detectorRotation, rpixel2, rcchp, r_i, out, i, par>>

\* ResolveDirection2 without the return: the status of the resolver is ignored
ResolveDirection2_NoReturn ==
    /\ pc = "dir2"
    /\ LET r == determine_detector_pixel(dir2, dpixel2)
       IN  /\ rpixel2' = r.rpixel
           /\ lastcall' = [name |-> "dir2", status |-> r.ret]
           /\ pc' = "prepare" /\ ret' = ret
    /\ UNCHANGED <<inputs, ri, sampleRotation, detectorRotation, rpixel1, rcchp, r_i, out, i, par>>

\* if(determine_detector_pixel(rpixel2, dir2, dpixel2) != 0) return 1;
ResolveDirection2 ==
    /\ pc = "dir2"
    /\ LET r == determine_detector_pixel(dir2, dpixel2)
       IN  /\ rpixel2' = r.rpixel
           /\ lastcall' = [name |-> "dir2", status |-> r.ret]
           /\ IF r.ret # 0
              THEN pc' = "done" /\ ret' = 1
              ELSE pc' = "prepare" /\ ret' = ret
    /\ UNCHANGED <<inputs, ri, sampleRotation, detectorRotation, rpixel1, rcchp, r_i, out, i, par>>

\* Prepare with the point detector's beam scaled in a local copy, the caller's ri kept
Prepare_LocalCopy ==
    /\ pc = "prepare"
    /\ pc' = "loop"
    /\ ri' = ri
    /\ CASE entry = "point" -> UNCHANGED <<rcchp, r_i>>
         [] entry = "linear" ->
              /\ rcchp' = [k \in 1..3 |-> rpixel1[k] * cch1]
              /\ r_i' = normalize(Real(rcch))
         [] entry = "area" ->
              /\ rcchp' = [k \in 1..3 |-> rpixel1[k] * cch1 + rpixel2[k] * cch2]
              /\ r_i' = normalize(Real(rcch))
    /\ UNCHANGED <<inputs, sampleRotation, detectorRotation, rpixel1, rpixel2, lastcall, out, i, ret, par>>

\* point: normalize(ri); vecmul(ri,M_2PI/lambda);
\* linear, area: rcchp[k] = ...; veccopy(r_i,rcch); normalize(r_i);
Prepare ==
    /\ pc = "prepare"
    /\ pc' = "loop"
    /\ CASE entry = "point" ->
              /\ ri' = vecmul(normalize(ri), f)
              /\ UNCHANGED <<rcchp, r_i>>
         [] entry = "linear" ->
              /\ rcchp' = [k \in 1..3 |-> rpixel1[k] * cch1]
              /\ r_i' = normalize(Real(rcch))
              /\ ri' = ri
         [] entry = "area" ->
              /\ rcchp' = [k \in 1..3 |-> rpixel1[k] * cch1 + rpixel2[k] * cch2]
              /\ r_i' = normalize(Real(rcch))
              /\ ri' = ri
    /\ UNCHANGED <<inputs, sampleRotation, detectorRotation, rpixel1, rpixel2, lastcall, out, i, ret, par>>

\* one pass of for(i=0; i<Npoints; ++i), executed by the calling thread
Iterate ==
    /\ pc = "loop"
    /\ i < Npoints
    /\ \E ms \in {SampleMatrix(i)}, md \in {DetectorMatrix(i)} :
         \E o \in {Store([qpos |-> qpos, nwrites |-> nwrites, oob |-> oob],
                         PositionWrites(i, ms, md, ri), 1)} :
            qpos' = o.qpos /\ nwrites' = o.nwrites /\ oob' = o.oob
    /\ i' = i + 1
    /\ UNCHANGED <<inputs, ri, setup, pc, ret, par>>

\* return 0;
Return ==
    /\ pc = "loop"
    /\ i >= Npoints
    /\ pc' = "done" /\ ret' = 0
    /\ UNCHANGED <<inputs, ri, setup, out, i, par>>

Next ==
    \/ ResolveSampleAxes
    \/ ResolveDetectorAxes
    \/ ResolveDirection1
    \/ ResolveDirection2
    \/ Prepare
    \/ Iterate
    \/ Return

Spec == Init /\ [][Next]_vars

(***************************************************************************)
(* The loop under  #pragma omp parallel for default(shared) private(...)   *)
(* schedule(static).  The positions are dealt to the threads (owner); a    *)
(* thread runs its positions in ascending order, each in three steps, and  *)
(* the steps of different threads interleave.  The variables of the        *)
(* private clause exist once per thread (scratch[t]); everything else is   *)
(* shared.  wlog and rlog record every access as <<location, position,     *)
(* thread>>, a location being <<name, index>>.                             *)
(***************************************************************************)
Threads == 1..NThreads

\* Private with the variables left out of the private clause: one copy for all threads
Private_Shared(t) == 1

\* the copy of a private variable that thread t works on
Private(t) == t

RECURSIVE NextOwned(_, _)
\* the first position from p on that thread t runs, Npoints if there is none
NextOwned(t, p) ==
    IF p >= Npoints THEN Npoints
    ELSE IF owner[p] = t THEN p ELSE NextOwned(t, p + 1)

Acc(names, c, p, t) == {<< <<n, c>>, p, t >> : n \in names}

InitPar ==
    /\ \E e \in Entries, n \in 1..MaxParPoints, b \in {<<1, 0, 2>>}, d \in {<<"z", "-">>, <<"z", "!">>} :
        Enter([DefaultCall EXCEPT !.entry = e, !.Npoints = n, !.beam = b, !.detectorAxis = d,
                                  !.sampleAngles = [k \in 1..n |-> k % 4],
                                  !.detectorAngles = [k \in 1..n |-> (k + 1) % 4]])
    /\ owner \in [0..(Npoints - 1) -> Threads]
    /\ tpos = [t \in Threads |-> NextOwned(t, 0)]
    /\ tpc = [t \in Threads |-> IF NextOwned(t, 0) < Npoints THEN "sample" ELSE "idle"]
    /\ scratch = [c \in Threads |-> [ms |-> Unset, md |-> Unset, msby |-> -1, mdby |-> -1]]
    /\ wlog = {} /\ rlog = {}

\* ident(mtemp); for(j..) { sampleRotation[j](sampleAngles[Ns*i+j],mtemp2); matmul(mtemp,mtemp2); }
\* inversemat(mtemp,ms);
SampleStep(t) ==
    /\ pc = "loop"
    /\ tpc[t] = "sample"
    /\ LET p == tpos[t]
           c == Private(t)
       IN  /\ scratch' = [scratch EXCEPT ![c].ms = SampleMatrix(p), ![c].msby = p]
           /\ wlog' = wlog \cup Acc({"i", "j", "mtemp", "ms"} \cup (IF Ns > 0 THEN {"mtemp2"} ELSE {}), c, p, t)
           /\ rlog' = rlog \cup Acc({"i", "j", "mtemp"} \cup (IF Ns > 0 THEN {"mtemp2"} ELSE {}), c, p, t)
                           \cup Acc({"Ns", "sampleRotation", "sampleAngles"}, 0, p, t)
    /\ tpc' = [tpc EXCEPT ![t] = "detector"]
    /\ UNCHANGED <<inputs, ri, setup, out, pc, i, ret, owner, tpos>>

\* ident(md); for(j..) { detectorRotation[j](detectorAngles[Nd*i+j],mtemp); matmul(md,mtemp); }
DetectorStep(t) ==
    /\ pc = "loop"
    /\ tpc[t] = "detector"
    /\ LET p == tpos[t]
           c == Private(t)
       IN  /\ scratch' = [scratch EXCEPT ![c].md = DetectorMatrix(p), ![c].mdby = p]
           /\ wlog' = wlog \cup Acc({"j", "md"} \cup (IF Nd > 0 THEN {"mtemp"} ELSE {}), c, p, t)
           /\ rlog' = rlog \cup Acc({"i", "j", "md"} \cup (IF Nd > 0 THEN {"mtemp"} ELSE {}), c, p, t)
                           \cup Acc({"Nd", "detectorRotation", "detectorAngles"}, 0, p, t)
    /\ tpc' = [tpc EXCEPT ![t] = "output"]
    /\ UNCHANGED <<inputs, ri, setup, out, pc, i, ret, owner, tpos>>

\* point: ident(mtemp); diffmat(md,mtemp); matmul(ms,md); matvec(ms, ri, &qpos[3*i]);
\* linear, area: the pixel loops;  then ++i
OutputStep(t) ==
    /\ pc = "loop"
    /\ tpc[t] = "output"
    /\ LET p == tpos[t]
           c == Private(t)
       IN  \E ms \in {scratch[c].ms}, md \in {scratch[c].md} :
           \E ws \in {PositionWrites(p, ms, md, ri)} :
           \E o \in {Store([qpos |-> qpos, nwrites |-> nwrites, oob |-> oob], ws, 1)} :
             /\ qpos' = o.qpos /\ nwrites' = o.nwrites /\ oob' = o.oob
             /\ wlog' = wlog \cup {<< <<"qpos", ws[k].slot>>, p, t >> : k \in 1..Len(ws)}
                             \cup Acc(CASE entry = "point" -> {"mtemp", "md", "ms"}
                                        [] entry = "linear" -> {"j", "i"} \cup (IF Len(ws) > 0 THEN {"k", "rd", "rtemp"} ELSE {})
                                        [] entry = "area" -> {"j1", "i"} \cup (IF roi[1] < roi[2] THEN {"j2"} ELSE {})
                                                               \cup (IF Len(ws) > 0 THEN {"k", "rd", "rtemp"} ELSE {}),
                                      c, p, t)
             /\ rlog' = rlog \cup Acc({"i", "ms", "md"}, c, p, t)
                             \cup Acc(CASE entry = "point" -> {"ri"}
                                        [] entry = "linear" -> {"roi", "rpixel", "rcchp", "rcch", "r_i", "f", "Nch"}
                                        [] entry = "area" -> {"roi", "rpixel1", "rpixel2", "rcchp", "rcch", "r_i",
                                                              "f", "idxh1", "idxh2"},
                                      0, p, t)
             /\ tpos' = [tpos EXCEPT ![t] = NextOwned(t, p + 1)]
             /\ tpc' = [tpc EXCEPT ![t] = IF NextOwned(t, p + 1) < Npoints THEN "sample" ELSE "idle"]
    /\ UNCHANGED <<inputs, ri, setup, pc, i, ret, owner, scratch>>

\* the end of the parallel region, then  return 0;
Join ==
    /\ pc = "loop"
    /\ \A t \in Threads : tpc[t] = "idle"
    /\ pc' = "done" /\ ret' = 0
    /\ UNCHANGED <<inputs, ri, setup, out, i, par>>

NextPar ==
    \/ ResolveSampleAxes
    \/ ResolveDetectorAxes
    \/ ResolveDirection1
    \/ ResolveDirection2
    \/ Prepare
    \/ \E t \in Threads : SampleStep(t)
    \/ \E t \in Threads : DetectorStep(t)
    \/ \E t \in Threads : OutputStep(t)
    \/ Join

SpecPar == InitPar /\ [][NextPar]_vars

(***************************************************************************)
(* Vocabulary of the properties.                                           *)
(***************************************************************************)
InvalidDirectionSign == 1
InvalidDirectionAxis == 2

IsLetter(c) == c \in {"x", "y", "z", "X", "Y", "Z"}
IsSign(c) == c \in {"+", "-"}
AllValid(str, n) == \A k \in 0..(n - 1) : IsLetter(str[2*k + 1]) /\ IsSign(str[2*k + 2])

\* the index 1..3 of the axis a letter names
AxisIndex(c) == IF c \in {"x", "X"} THEN 1 ELSE IF c \in {"y", "Y"} THEN 2 ELSE 3

\* the generator a valid pair names
Generator(letter, sign) ==
    <<"rotation_xp", "rotation_xm", "rotation_yp", "rotation_ym", "rotation_zp", "rotation_zm">>
        [2 * AxisIndex(letter) - (IF sign = "+" THEN 1 ELSE 0)]

\* which resolution of the setup phase fails first, from the arguments alone
Cause ==
    IF ~AllValid(sampleAxis, Ns) THEN "sample"
    ELSE IF ~AllValid(detectorAxis, Nd) THEN "detector"
    ELSE IF entry # "point" /\ ~(IsLetter(dir1[1]) /\ IsSign(dir1[2])) THEN "direction"
    ELSE IF entry = "area" /\ ~(IsLetter(dir2[1]) /\ IsSign(dir2[2])) THEN "direction"
    ELSE "none"

NothingWritten ==
    /\ qpos = [s \in Slots |-> Garbage]
    /\ \A s \in Slots : nwrites[s] = 0
    /\ oob = {}

Positions == 0..(Npoints - 1)
AllZero == (\A k \in DOMAIN sampleAngles : sampleAngles[k] = 0)
            /\ (\A k \in DOMAIN detectorAngles : detectorAngles[k] = 0)

Sgn(x) == IF x > 0 THEN 1 ELSE IF x < 0 THEN -1 ELSE 0

\* equality of two real vectors of one term each
VecEq(a, b) ==
    /\ Len(a) = 1 /\ Len(b) = 1
    /\ a[1].sq > 0 /\ b[1].sq > 0
    /\ \A k \in 1..3 :
        LET x == a[1].mul * a[1].num[k]
            y == b[1].mul * b[1].num[k]
        IN  Sgn(x) = Sgn(y) /\ x * x * b[1].sq = y * y * a[1].sq

IsZeroVec(a) == Len(a) = 1 /\ a[1].sq > 0 /\ (a[1].mul = 0 \/ a[1].num = Zero3)

Transpose(m) == << m[1], m[4], m[7],  m[2], m[5], m[8],  m[3], m[6], m[9] >>

RECURSIVE Product(_, _, _, _, _)
\* R_j * (R_j+1 * ( ... * R_n-1)) at position p, the circles read from the axis string
Product(str, angles, n, p, j) ==
    IF j >= n THEN ident
    ELSE The({matmul(CallRot(Generator(str[2*j + 1], str[2*j + 2]), angles[n*p + j + 1]), rest) :
                rest \in {Product(str, angles, n, p, j + 1)}})

\* the inverse of a product of rotations is the transpose
RefSampleInverse(p) == Transpose(Product(sampleAxis, sampleAngles, Ns, p, 0))
RefDetector(p) == Product(detectorAxis, detectorAngles, Nd, p, 0)

(***************************************************************************)
(* C1: a call in which a resolution of the setup phase fails never reaches *)
(* the loop, returns a status other than 0 and has written no element of   *)
(* qpos at any point; qpos is written only in the loop, after every        *)
(* resolution has succeeded.                                               *)
(***************************************************************************)
C1_NoOutputOnFailure ==
    /\ Cause # "none" =>
          /\ NothingWritten
          /\ pc \in {"sample_axes", "detector_axes", "dir1", "dir2", "done"}
          /\ pc = "done" => ret \in Int /\ ret # 0
    /\ ~NothingWritten => Cause = "none" /\ pc \in {"loop", "done"}

C1_Witness ==
    /\ pc = "done" /\ entry = "area" /\ Npoints > 0 /\ ret = 1
    /\ AllValid(sampleAxis, Ns) /\ AllValid(detectorAxis, Nd)
    /\ IsLetter(dir1[1]) /\ IsSign(dir1[2]) /\ ~IsLetter(dir2[1])
    /\ NothingWritten

(***************************************************************************)
(* C2 as stated: a failing call returns a status that tells the cause, so  *)
(* a call failing for another cause returns another status.  The reference *)
(* calls are the current call with one resolution made to fail.            *)
(***************************************************************************)
\* the status of the setup phase of an entry point
SetupStatus(e, sAxis, ns, dAxis, nd, d1, d2) ==
    IF determine_axes_directions([k \in 1..ns |-> Unset], sAxis, ns).ret # 0 THEN 1
    ELSE IF determine_axes_directions([k \in 1..nd |-> Unset], dAxis, nd).ret # 0 THEN 1
    ELSE IF e # "point" /\ determine_detector_pixel(d1, dpixel1).ret # 0 THEN 1
    ELSE IF e = "area" /\ determine_detector_pixel(d2, dpixel2).ret # 0 THEN 1
    ELSE 0

StatusOfSampleFailure == SetupStatus(entry, <<"q", "+">>, 1, <<"z", "-">>, 1, <<"x", "+">>, <<"y", "+">>)
StatusOfDetectorFailure == SetupStatus(entry, <<"x", "+">>, 1, <<"z", "?">>, 1, <<"x", "+">>, <<"y", "+">>)
StatusOfDirectionFailure == SetupStatus("area", <<"x", "+">>, 1, <<"z", "-">>, 1, <<"x", "+">>, <<"q", "+">>)

C2_DistinctCodes ==
    pc = "done" =>
        /\ Cause = "none" => ret = 0
        /\ Cause = "sample" => ret # 0 /\ ret # StatusOfDetectorFailure /\ ret # StatusOfDirectionFailure
        /\ Cause = "detector" => ret # 0 /\ ret # StatusOfSampleFailure /\ ret # StatusOfDirectionFailure
        /\ Cause = "direction" => ret # 0 /\ ret # StatusOfSampleFailure /\ ret # StatusOfDetectorFailure

(***************************************************************************)
(* C2 as amended: a call returns 0 on success and 1 on failure, whichever  *)
(* of the three resolutions failed; the status does not tell the cause.    *)
(***************************************************************************)
C2_OneFailureCode ==
    pc = "done" =>
        /\ Cause = "none" => ret = 0
        /\ Cause # "none" => ret = 1
        /\ ret = SetupStatus(entry, sampleAxis, Ns, detectorAxis, Nd, dir1, dir2)

C2_Witness ==
    /\ pc = "done" /\ ret = 1 /\ Cause = "detector" /\ entry = "linear"
    /\ StatusOfSampleFailure = 1 /\ StatusOfDirectionFailure = 1

(***************************************************************************)
(* C3: in a successful linear or area conversion with a non-empty ROI the  *)
(* pixel (i, p) is written to slot i*Nch + (p - roi[0]), the pixel         *)
(* (i, p1, p2) to slot i*N1*N2 + (p2 - roi[2])*N1 + (p1 - roi[0]); no two  *)
(* pixels share a slot, every slot 0 .. Npoints*Npixels-1 is written       *)
(* exactly once and nothing is written outside that range.                 *)
(***************************************************************************)
LinearPixels == {<<p, j>> : p \in Positions, j \in roi[1]..(roi[2] - 1)}
AreaPixelSet == {<<p, j1, j2>> : p \in Positions, j1 \in roi[1]..(roi[2] - 1), j2 \in roi[3]..(roi[4] - 1)}
LinearIndex(x) == x[1] * (roi[2] - roi[1]) + (x[2] - roi[1])
AreaIndex(x) ==
    x[1] * (roi[2] - roi[1]) * (roi[4] - roi[3]) + (x[3] - roi[3]) * (roi[2] - roi[1]) + (x[2] - roi[1])

C3_EverySlotOnce ==
    /\ oob = {}
    /\ \A s \in DOMAIN nwrites : nwrites[s] <= 1
    /\ (pc = "done" /\ ret = 0 /\ entry = "linear" /\ roi[2] > roi[1]) =>
          /\ \A x, y \in LinearPixels : x # y => LinearIndex(x) # LinearIndex(y)
          /\ {LinearIndex(x) : x \in LinearPixels} = 0..(Npoints * (roi[2] - roi[1]) - 1)
          /\ DOMAIN qpos = 0..(Npoints * (roi[2] - roi[1]) - 1)
          /\ \A x \in LinearPixels :
                /\ nwrites[LinearIndex(x)] = 1
                /\ qpos[LinearIndex(x)] = PixelQ(SampleMatrix(x[1]), DetectorMatrix(x[1]), LinearRd(x[2]))
    /\ (pc = "done" /\ ret = 0 /\ entry = "area" /\ roi[2] > roi[1] /\ roi[4] > roi[3]) =>
          /\ \A x, y \in AreaPixelSet : x # y => AreaIndex(x) # AreaIndex(y)
          /\ {AreaIndex(x) : x \in AreaPixelSet} = 0..(Npoints * (roi[2] - roi[1]) * (roi[4] - roi[3]) - 1)
          /\ DOMAIN qpos = 0..(Npoints * (roi[2] - roi[1]) * (roi[4] - roi[3]) - 1)
          /\ \A x \in AreaPixelSet :
                /\ nwrites[AreaIndex(x)] = 1
                /\ qpos[AreaIndex(x)] = PixelQ(SampleMatrix(x[1]), DetectorMatrix(x[1]), AreaRd(x[2], x[3]))

C3_Witness ==
    /\ pc = "done" /\ ret = 0 /\ entry = "area" /\ Npoints = 2
    /\ roi[2] - roi[1] = 1 /\ roi[4] - roi[3] = 2 /\ roi[1] = 1
    /\ \A s \in 0..3 : nwrites[s] = 1

(***************************************************************************)
(* C7: an empty ROI is no error.  A call with valid axis and direction     *)
(* strings and roi[1] <= roi[0] (linear), or roi[1] <= roi[0] or           *)
(* roi[3] <= roi[2] (area), writes nothing at any position and returns 0.  *)
(***************************************************************************)
EmptyRoi ==
    \/ entry = "linear" /\ roi[2] <= roi[1]
    \/ entry = "area" /\ (roi[2] <= roi[1] \/ roi[4] <= roi[3])

C7_EmptyRoiWritesNothing ==
    (Cause = "none" /\ EmptyRoi) =>
        /\ NothingWritten
        /\ pc = "done" => ret = 0
        /\ pc = "loop" => i <= Npoints

C7_Witness ==
    /\ pc = "done" /\ ret = 0 /\ entry = "area" /\ Npoints = 2 /\ i = 2
    /\ roi[2] > roi[1] /\ roi[4] <= roi[3]
    /\ NothingWritten

(***************************************************************************)
(* C4 as stated: with every sample and detector angle 0 the composed       *)
(* sample and detector matrices are the identity and the Q of the point    *)
(* detector is the beam direction scaled to 2*pi/lambda.                   *)
(***************************************************************************)
ComposedAreIdentity ==
    \A p \in Positions :
        /\ RotLoop(sampleRotation, sampleAngles, Ns, p, 0, ident) = ident
        /\ SampleMatrix(p) = ident
        /\ DetectorMatrix(p) = ident

C4_QIsScaledBeam ==
    (pc = "done" /\ ret = 0 /\ entry = "point" /\ AllZero) =>
        /\ ComposedAreIdentity
        /\ \A p \in Positions : VecEq(qpos[p], vecmul(normalize(ri0), f))

(***************************************************************************)
(* C4 as amended: with every sample and detector angle 0 the composed      *)
(* sample and detector matrices are the identity, for every number of      *)
(* circles and every valid axis string, and the Q of the point detector is *)
(* the zero vector: (R_d - I) is the zero matrix.                          *)
(***************************************************************************)
C4_QIsZero ==
    (pc = "done" /\ ret = 0 /\ entry = "point" /\ AllZero) =>
        /\ ComposedAreIdentity
        /\ \A p \in Positions : IsZeroVec(qpos[p]) /\ nwrites[p] = 1

C4_Witness ==
    /\ pc = "done" /\ ret = 0 /\ entry = "point" /\ AllZero
    /\ Ns = 1 /\ Nd = 1 /\ sampleAxis = <<"x", "+">> /\ detectorAxis = <<"x", "+">>
    /\ ri0 = Real(<<0, 0, 1>>) /\ f = 5 /\ Npoints = 1
    /\ qpos[0] = << [num |-> <<0, 0, 0>>, sq |-> 1, mul |-> 5] >>

(***************************************************************************)
(* C9: at every position the sample matrix is the inverse of               *)
(* R_0 * R_1 * ... * R_Ns-1, the detector matrix is R_0 * ... * R_Nd-1,    *)
(* not inverted, the circles taken in ascending order, and the point       *)
(* detector gets Q_i = R_s^-1 * (R_d - I) * k.  The pixels of the linear   *)
(* and area detectors are computed with the same two matrices.             *)
(***************************************************************************)
C9_CompositionOrder ==
    (pc = "done" /\ ret = 0) =>
        \A p \in Positions :
            /\ SampleMatrix(p) = RefSampleInverse(p)
            /\ DetectorMatrix(p) = RefDetector(p)
            /\ entry = "point" =>
                  qpos[p] = matvec(matmul(RefSampleInverse(p), diffmat(RefDetector(p), ident)), ri)
            /\ entry = "linear" =>
                  \A j \in roi[1]..(roi[2] - 1) :
                      qpos[LinearIndex(<<p, j>>)] = PixelQ(RefSampleInverse(p), RefDetector(p), LinearRd(j))
            /\ entry = "area" =>
                  \A j1 \in roi[1]..(roi[2] - 1), j2 \in roi[3]..(roi[4] - 1) :
                      qpos[AreaIndex(<<p, j1, j2>>)] = PixelQ(RefSampleInverse(p), RefDetector(p), AreaRd(j1, j2))

\* two sample circles that do not commute, a quarter turn each, and a detector that moved
C9_Witness ==
    /\ pc = "done" /\ ret = 0 /\ entry = "point" /\ Ns = 2 /\ Nd = 1
    /\ sampleAxis = <<"x", "+", "y", "-">> /\ sampleAngles = <<1, 1>>
    /\ matmul(rotation_xp(1), rotation_ym(1)) # matmul(rotation_ym(1), rotation_xp(1))
    /\ ~IsZeroVec(qpos[0])
    /\ qpos[0] = matvec(matmul(Transpose(matmul(rotation_xp(1), rotation_ym(1))),
                               diffmat(RefDetector(0), ident)), ri)

(***************************************************************************)
(* C5: determine_axes_directions returns 0 exactly when each of the n      *)
(* pairs is a letter x, y or z of either case followed by '+' or '-'; it   *)
(* then has assigned exactly the n entries, entry i with the generator of  *)
(* pair i.  One malformed pair anywhere makes it return non-zero, no       *)
(* generator is put in its place, and the entry point fails as a whole.    *)
(***************************************************************************)
\* the first malformed pair of a string (0-based), n if there is none
RECURSIVE FirstBad(_, _, _)
FirstBad(str, n, k) ==
    IF k >= n \/ ~(IsLetter(str[2*k + 1]) /\ IsSign(str[2*k + 2])) THEN k
    ELSE FirstBad(str, n, k + 1)

ResolvedAsNamed(r, str, n) ==
    /\ (r.ret = 0) <=> AllValid(str, n)
    /\ DOMAIN r.fp = 1..n
    /\ \A k \in 0..(FirstBad(str, n, 0) - 1) : r.fp[k + 1] = Generator(str[2*k + 1], str[2*k + 2])
    /\ \A k \in FirstBad(str, n, 0)..(n - 1) : r.fp[k + 1] = Unset

C5_AxesResolution ==
    /\ lastcall.name = "sample" =>
          ResolvedAsNamed([ret |-> lastcall.status, fp |-> sampleRotation], sampleAxis, Ns)
    /\ lastcall.name = "detector" =>
          ResolvedAsNamed([ret |-> lastcall.status, fp |-> detectorRotation], detectorAxis, Nd)
    /\ pc \in {"dir1", "dir2", "prepare", "loop"} \/ (pc = "done" /\ ret = 0) =>
          /\ ResolvedAsNamed([ret |-> 0, fp |-> sampleRotation], sampleAxis, Ns)
          /\ ResolvedAsNamed([ret |-> 0, fp |-> detectorRotation], detectorAxis, Nd)
    /\ ~(AllValid(sampleAxis, Ns) /\ AllValid(detectorAxis, Nd)) =>
          /\ pc \in {"sample_axes", "detector_axes", "done"}
          /\ NothingWritten
          /\ pc = "done" => ret \in Int /\ ret # 0

\* the second of two pairs is malformed, in its sign
C5_Witness ==
    /\ pc = "done" /\ ret = 1 /\ Ns = 2
    /\ sampleAxis = <<"Y", "-", "z", "*">>
    /\ sampleRotation = <<"rotation_ym", Unset>>
    /\ lastcall = [name |-> "sample", status |-> 1]

(***************************************************************************)
(* C6 as stated: a valid direction gives status 0 and a vector whose only  *)
(* component that may differ from 0 is the one of the named axis, +dpixel  *)
(* for '+' and -dpixel for '-'; a sign other than '+' and '-' gives the    *)
(* sign error, a letter other than x, y, z gives the axis error.           *)
(***************************************************************************)
ValidDirection(dir, dpixel, r) ==
    (IsLetter(dir[1]) /\ IsSign(dir[2])) =>
        /\ r.ret = 0
        /\ r.rpixel = [k \in 1..3 |->
                          IF k # AxisIndex(dir[1]) THEN 0
                          ELSE IF dir[2] = "+" THEN dpixel ELSE -dpixel]

\* the direction, pitch, status and vector of the call of determine_detector_pixel just made
LastPixelCall ==
    IF lastcall.name = "dir1"
    THEN [dir |-> dir1, dpixel |-> dpixel1, ret |-> lastcall.status, rpixel |-> rpixel1]
    ELSE [dir |-> dir2, dpixel |-> dpixel2, ret |-> lastcall.status, rpixel |-> rpixel2]

C6_SignErrorForAnyBadSign ==
    lastcall.name \in {"dir1", "dir2"} =>
        LET r == LastPixelCall
        IN  /\ ValidDirection(r.dir, r.dpixel, r)
            /\ ~IsSign(r.dir[2]) => r.ret = InvalidDirectionSign
            /\ ~IsLetter(r.dir[1]) => r.ret = InvalidDirectionAxis

(***************************************************************************)
(* C6 as amended: as stated for a valid direction; the letter is looked at *)
(* first, so a letter other than x, y, z gives the axis error whatever the *)
(* sign is, and the sign error is given when the letter is x, y or z and   *)
(* the sign is neither '+' nor '-'.                                        *)
(***************************************************************************)
C6_LetterBeforeSign ==
    lastcall.name \in {"dir1", "dir2"} =>
        LET r == LastPixelCall
        IN  /\ ValidDirection(r.dir, r.dpixel, r)
            /\ (IsLetter(r.dir[1]) /\ ~IsSign(r.dir[2])) => r.ret = InvalidDirectionSign
            /\ ~IsLetter(r.dir[1]) => r.ret = InvalidDirectionAxis /\ r.rpixel = Zero3
            /\ (r.ret = 0) <=> (IsLetter(r.dir[1]) /\ IsSign(r.dir[2]))

\* the linear detector was given a direction of which letter and sign are both wrong
C6_Witness ==
    /\ entry = "linear" /\ pc = "done" /\ ret = 1 /\ Cause = "direction"
    /\ dir1 = <<"q", "*">> /\ rpixel1 = Zero3
    /\ lastcall = [name |-> "dir1", status |-> InvalidDirectionAxis]

(***************************************************************************)
(* C10: no step of a call changes the angle arrays, the axis and direction *)
(* strings, roi or rcch.  ang2q_conversion leaves ri as it was when it     *)
(* returns non-zero; when it returns 0 it has overwritten ri with the beam *)
(* direction scaled to length 2*pi/lambda, which differs from the ri       *)
(* passed in unless that had this length already.                          *)
(***************************************************************************)
C10_Step ==
    /\ UNCHANGED <<sampleAngles, detectorAngles, sampleAxis, detectorAxis, dir1, dir2, roi, rcch>>
    /\ UNCHANGED <<Ns, Nd, Npoints, cch1, cch2, dpixel1, dpixel2, f>>
    /\ entry' # "point" => ri' = ri0
    /\ (entry' = "point" /\ pc' = "done" /\ ret' # 0) => ri' = ri0
    /\ (entry' = "point" /\ pc' = "done" /\ ret' = 0) =>
          /\ ri' = vecmul(normalize(ri0), f)
          /\ VecEq(ri', ri0) <=> dot(ri0[1].num, ri0[1].num) = f * f

PrivateNames == {"i", "j", "j1", "j2", "k", "mtemp", "mtemp2", "ms", "md", "rd", "rtemp"}

RECURSIVE SeqLoop(_, _)
\* qpos, nwrites and oob after the positions p .. Npoints-1, run one after the other
SeqLoop(o, p) ==
    IF p >= Npoints THEN o
    ELSE The({SeqLoop(o2, p + 1) :
                o2 \in {Store(o, PositionWrites(p, SampleMatrix(p), DetectorMatrix(p), ri), 1)}})

SequentialQpos == SeqLoop([qpos |-> [s \in Slots |-> Garbage], nwrites |-> [s \in Slots |-> 0], oob |-> {}], 0).qpos

(***************************************************************************)
(* C8 as stated: whatever the schedule and the interleaving, no location   *)
(* written in the iteration of one position is read or written in the      *)
(* iteration of another position.                                          *)
(***************************************************************************)
C8_NoLocationSharedByPositions ==
    \A w \in wlog : \A a \in wlog \cup rlog : w[1] = a[1] => w[2] = a[2]

(***************************************************************************)
(* C8 as amended: the scratch variables of the private clause exist once   *)
(* per thread, not once per position, and the positions a thread runs      *)
(* write the same scratch one after the other.  Whatever the schedule and  *)
(* the interleaving: a location written in the iteration of one position   *)
(* is read or written in the iteration of another position only by the     *)
(* same thread, and then it is scratch, which the later iteration writes   *)
(* before it reads it; a slot of qpos is written by one position and read  *)
(* by none; the shared inputs are only read; and the final qpos is that of *)
(* the sequential loop over the positions 0 .. Npoints-1.                  *)
(***************************************************************************)
C8_RaceFreeAndSequential ==
    /\ \A w \in wlog : \A a \in wlog \cup rlog :
          (w[1] = a[1] /\ w[2] # a[2]) => (w[3] = a[3] /\ w[1][1] \in PrivateNames)
    /\ \A w \in wlog : w[1][1] \in PrivateNames \cup {"qpos"}
    /\ \A a \in rlog : a[1][1] # "qpos"
    /\ \A t \in DOMAIN tpc :
          tpc[t] = "output" => scratch[Private(t)].msby = tpos[t] /\ scratch[Private(t)].mdby = tpos[t]
    /\ (pc = "done" /\ ret = 0 /\ owner # <<>>) => qpos = SequentialQpos /\ oob = {}

\* three positions on two threads, one of which ran two of them
C8_Witness ==
    /\ pc = "done" /\ ret = 0 /\ Npoints = 3 /\ entry = "area"
    /\ owner = [p \in 0..2 |-> IF p = 1 THEN 2 ELSE 1]
    /\ \E w \in wlog : \E a \in wlog : w[1] = <<"ms", 1>> /\ a[1] = w[1] /\ w[2] = 0 /\ a[2] = 2
    /\ qpos = SequentialQpos

====
